---- MODULE Spec2Model ----
(***************************************************************************)
(* Model of canigolftoday: the golfability scorer (src/lib/golfability.ts) *)
(* and the weather route handler that scores forecast blocks, picks the    *)
(* best tee window, derives the ground signals and builds the daily        *)
(* outlook (src/unnamed/part_002).                                         *)
(*                                                                         *)
(* Numbers are scaled integers, so that every comparison of the source is  *)
(* exact:                                                                  *)
(*   temperatures      tenths of a degree C      (17.0 C   = 170)          *)
(*   wind, gust        hundredths of a km/h      (15 km/h  = 1500)         *)
(*   pop               hundredths                (0.8      = 80)           *)
(*   precipitation     tenths of a mm            (5 mm     = 50)           *)
(*   time              unix seconds                                        *)
(* null / undefined of a number is the value Null; a null, undefined or    *)
(* empty condition text is the empty sequence (all three are falsy in the  *)
(* source's `conditions ? ... : false`).                                   *)
(***************************************************************************)
EXTENDS Integers, Sequences, FiniteSets, TLC

VARIABLES
    opts,       \* the argument record of the function under call
    res,        \* the value golfabilityScore or a ground-signal function
                \* returned (NoResult before the call)
    season,     \* the value inferSeason returned ("none" before the call)
    pc,         \* position of the operation under way
    query,      \* the request's lat / lon parameters (Null when missing)
    apiKey,     \* whether OPENWEATHER_API_KEY is set
    calls,      \* the provider calls GET has issued so far
    fetched,    \* how the weather and the forecast call ended
    env,        \* Date.now() and what the provider said of the location
    blocks,     \* the scored forecast blocks
    history,    \* how the precipitation-history call ended, and the totals
                \* getPastPrecipMm made of it
    response    \* the response of GET (NoResponse until it returns)

scorerVars == <<opts, res, season>>
handlerVars == <<query, apiKey, calls, fetched, env, blocks, history, response>>
vars == <<opts, res, season, pc, query, apiKey, calls, fetched, env, blocks,
          history, response>>

\* null / undefined for a numeric field
Null == -1000000

NoResult == [score |-> Null, verdict |-> "none", reason |-> "none", season |-> "none"]

\* before the handler has run
NoReading == [dt |-> Null, temp |-> Null, feels_like |-> Null, speed |-> Null,
              gust |-> Null, rain |-> Null, snow |-> Null, main |-> <<>>]
NoEnv == [now |-> 0, tzOffsetSec |-> 0, sunrise |-> 0, sunset |-> 0,
          current |-> NoReading]
NoFetch == [cur |-> "none", fc |-> "none"]
NoHistory == [kind |-> "none", isArray |-> FALSE, length |-> <<0, 0>>,
              past24 |-> Null, past48 |-> Null]
NoResponse == [status |-> 0]

\* the part of the state an operation does not use
ScorerIdle == opts = <<>> /\ res = NoResult /\ season = "none"
HandlerIdle ==
    /\ query = <<>> /\ apiKey = FALSE /\ calls = {} /\ fetched = NoFetch
    /\ env = NoEnv /\ blocks = <<>> /\ history = NoHistory
    /\ response = NoResponse

(***************************************************************************)
(* Condition text: a sequence of one-character strings.                    *)
(***************************************************************************)
Upper == <<"A","B","C","D","E","F","G","H","I","J","K","L","M",
           "N","O","P","Q","R","S","T","U","V","W","X","Y","Z">>
Lower == <<"a","b","c","d","e","f","g","h","i","j","k","l","m",
           "n","o","p","q","r","s","t","u","v","w","x","y","z">>

\* case folding of the /i flag
ToLower(c) ==
    IF \E k \in 1..26 : Upper[k] = c
    THEN Lower[CHOOSE k \in 1..26 : Upper[k] = c]
    ELSE c

\* /pat/i.test(text): pat (lower case) occurs somewhere in text, ignoring case
RegexTestI(pat, text) ==
    \E i \in 1..(Len(text) - Len(pat) + 1) :
        \A j \in 1..Len(pat) : ToLower(text[i + j - 1]) = pat[j]

SnowPattern == <<"s","n","o","w">>
ThunderstormPattern == <<"t","h","u","n","d","e","r","s","t","o","r","m">>

isSnowy(conditions) ==
    IF conditions # <<>> THEN RegexTestI(SnowPattern, conditions) ELSE FALSE

isStormy(conditions) ==
    IF conditions # <<>> THEN RegexTestI(ThunderstormPattern, conditions) ELSE FALSE

(***************************************************************************)
(* inferSeason                                                             *)
(***************************************************************************)
inferSeasonZeroSouth(lat, month) ==
    IF month = Null THEN "SHOULDER"
    ELSE LET northern == IF lat = Null THEN TRUE ELSE lat > 0
         IN  IF northern
             THEN IF month \in {11, 0, 1} THEN "WINTER"
                  ELSE IF month \in {5, 6, 7} THEN "SUMMER"
                  ELSE "SHOULDER"
             ELSE IF month \in {5, 6, 7} THEN "WINTER"
                  ELSE IF month \in {11, 0, 1} THEN "SUMMER"
                  ELSE "SHOULDER"

inferSeason(lat, month) ==
    IF month = Null THEN "SHOULDER"
    ELSE LET northern == IF lat = Null THEN TRUE ELSE lat >= 0
         IN  IF northern
             THEN IF month \in {11, 0, 1} THEN "WINTER"
                  ELSE IF month \in {5, 6, 7} THEN "SUMMER"
                  ELSE "SHOULDER"
             ELSE IF month \in {5, 6, 7} THEN "WINTER"
                  ELSE IF month \in {11, 0, 1} THEN "SUMMER"
                  ELSE "SHOULDER"

(***************************************************************************)
(* golfabilityScore                                                        *)
(***************************************************************************)
\* tenths of a degree
WINTER_MIN_FEELS_LIKE_C == 50
ABSOLUTE_MIN_FEELS_LIKE_C == -20

\* a comparison with an undefined operand is false in the source
HasNum(x) == x # Null

\* The hard stops, in source order. "none" when no hard stop returns.
\* (The dash of two reason strings is an em dash in the source.)
HardStopSnowFirst(o) ==
    IF o.hasAlert
    THEN [score |-> 0, verdict |-> "RED", reason |-> "Weather alert in effect"]
    ELSE IF isStormy(o.conditions)
    THEN [score |-> 0, verdict |-> "RED", reason |-> "Thunderstorms - hard no"]
    ELSE IF isSnowy(o.conditions)
    THEN [score |-> 15, verdict |-> "RED", reason |-> "Snowing / winter conditions"]
    ELSE IF HasNum(o.feelsLikeC) /\ o.feelsLikeC <= ABSOLUTE_MIN_FEELS_LIKE_C
    THEN [score |-> 10, verdict |-> "RED", reason |-> "Too cold to be playable"]
    ELSE IF inferSeason(o.lat, o.month) = "WINTER"
            /\ HasNum(o.feelsLikeC) /\ o.feelsLikeC < WINTER_MIN_FEELS_LIKE_C
    THEN [score |-> 25, verdict |-> "RED", reason |-> "Winter conditions - not golf weather"]
    ELSE [score |-> Null, verdict |-> "none", reason |-> "none"]

HardStopWinterFirst(o) ==
    IF o.hasAlert
    THEN [score |-> 0, verdict |-> "RED", reason |-> "Weather alert in effect"]
    ELSE IF isStormy(o.conditions)
    THEN [score |-> 0, verdict |-> "RED", reason |-> "Thunderstorms - hard no"]
    ELSE IF inferSeason(o.lat, o.month) = "WINTER"
            /\ HasNum(o.feelsLikeC) /\ o.feelsLikeC < WINTER_MIN_FEELS_LIKE_C
    THEN [score |-> 25, verdict |-> "RED", reason |-> "Winter conditions - not golf weather"]
    ELSE IF HasNum(o.feelsLikeC) /\ o.feelsLikeC <= ABSOLUTE_MIN_FEELS_LIKE_C
    THEN [score |-> 10, verdict |-> "RED", reason |-> "Too cold to be playable"]
    ELSE IF isSnowy(o.conditions)
    THEN [score |-> 15, verdict |-> "RED", reason |-> "Snowing / winter conditions"]
    ELSE [score |-> Null, verdict |-> "none", reason |-> "none"]

HardStop(o) ==
    IF o.hasAlert
    THEN [score |-> 0, verdict |-> "RED", reason |-> "Weather alert in effect"]
    ELSE IF isStormy(o.conditions)
    THEN [score |-> 0, verdict |-> "RED", reason |-> "Thunderstorms - hard no"]
    ELSE IF HasNum(o.feelsLikeC) /\ o.feelsLikeC <= ABSOLUTE_MIN_FEELS_LIKE_C
    THEN [score |-> 10, verdict |-> "RED", reason |-> "Too cold to be playable"]
    ELSE IF isSnowy(o.conditions)
    THEN [score |-> 15, verdict |-> "RED", reason |-> "Snowing / winter conditions"]
    ELSE IF inferSeason(o.lat, o.month) = "WINTER"
            /\ HasNum(o.feelsLikeC) /\ o.feelsLikeC < WINTER_MIN_FEELS_LIKE_C
    THEN [score |-> 25, verdict |-> "RED", reason |-> "Winter conditions - not golf weather"]
    ELSE [score |-> Null, verdict |-> "none", reason |-> "none"]

\* Precip risk, pop in hundredths
PopPenaltyCumulative(pop) ==
    (IF pop >= 80 THEN 40 ELSE 0) + (IF pop >= 60 THEN 30 ELSE 0)
    + (IF pop >= 40 THEN 18 ELSE 0) + (IF pop >= 20 THEN 8 ELSE 0)

PopPenalty(pop) ==
    IF pop >= 80 THEN 40
    ELSE IF pop >= 60 THEN 30
    ELSE IF pop >= 40 THEN 18
    ELSE IF pop >= 20 THEN 8
    ELSE 0

\* precipMm in tenths of a mm
AmountPenalty(precipMm) ==
    IF precipMm >= 50 THEN 12
    ELSE IF precipMm >= 10 THEN 6
    ELSE 0

Max(a, b) == IF a >= b THEN a ELSE b
Min(a, b) == IF a <= b THEN a ELSE b

\* Math.max(windKph, gustKph * 0.8), in thousandths of a km/h
\* (wind and gust are hundredths: 10 * wind and 8 * gust)
EffectiveWind(windKph, gustKph) == Max(10 * windKph, 8 * gustKph)

\* effectiveWind in thousandths of a km/h
WindPenaltyUnordered(effectiveWind) ==
    IF effectiveWind >= 50000 THEN 18
    ELSE IF effectiveWind >= 40000 THEN 22
    ELSE IF effectiveWind >= 30000 THEN 14
    ELSE IF effectiveWind >= 20000 THEN 8
    ELSE IF effectiveWind >= 15000 THEN 3
    ELSE 0

WindPenalty(effectiveWind) ==
    IF effectiveWind >= 50000 THEN 28
    ELSE IF effectiveWind >= 40000 THEN 22
    ELSE IF effectiveWind >= 30000 THEN 14
    ELSE IF effectiveWind >= 20000 THEN 8
    ELSE IF effectiveWind >= 15000 THEN 3
    ELSE 0

\* t = feelsLikeC ?? tempC, tenths of a degree
TempPenalty(t, s) ==
    IF t < 0 THEN (IF s = "SUMMER" THEN 35 ELSE 40)
    ELSE IF t < 50 THEN (IF s = "SUMMER" THEN 25 ELSE 30)
    ELSE IF t < 100 THEN 10
    ELSE IF t > 320 THEN 18
    ELSE 0

\* Math.max(0, Math.min(100, Math.round(score))): score is an integer here,
\* 100 less integer penalties, so Math.round leaves it as it is
ClampScoreNoFloor(score) == Min(100, score)

ClampScore(score) == Max(0, Min(100, score))

VerdictOfLenient(score) ==
    IF score < 50 THEN "RED"
    ELSE IF score < 80 THEN "YELLOW"
    ELSE "GREEN"

VerdictOf(score) ==
    IF score < 55 THEN "RED"
    ELSE IF score < 80 THEN "YELLOW"
    ELSE "GREEN"

ReasonOf(verdict) ==
    IF verdict = "GREEN" THEN "Great golf weather"
    ELSE IF verdict = "YELLOW" THEN "Playable, but not perfect"
    ELSE "Not really golf weather"

golfabilityScore(o) ==
    LET stop == HardStop(o)
    IN  IF stop.verdict # "none"
        THEN [score |-> stop.score, verdict |-> stop.verdict,
              reason |-> stop.reason, season |-> "none"]
        ELSE LET s == inferSeason(o.lat, o.month)
                 t == IF HasNum(o.feelsLikeC) THEN o.feelsLikeC ELSE o.tempC
                 raw == 100 - PopPenalty(o.pop) - AmountPenalty(o.precipMm)
                            - WindPenalty(EffectiveWind(o.windKph, o.gustKph))
                            - TempPenalty(t, s)
                 score == ClampScore(raw)
                 verdict == VerdictOf(score)
             IN  [score |-> score, verdict |-> verdict,
                  reason |-> ReasonOf(verdict), season |-> s]

(***************************************************************************)
(* Inputs of the scorer                                                    *)
(***************************************************************************)
Clear == <<"C","l","e","a","r">>
Snow == <<"S","n","o","w">>
Thunderstorm == <<"T","h","u","n","d","e","r","s","t","o","r","m">>
SnowAndThunder == <<"s","n","o","w"," ","+"," ","T","H","U","N","D","E","R","S","T","O","R","M">>

CondTexts == {<<>>, Clear, Snow, Thunderstorm, SnowAndThunder}
FeelsVals == {Null, -50, -20, -19, -1, 0, 10, 49, 50, 99, 100, 170, 321}
TempVals == {-10, 180}
WindVals == {1000, 1500, 2000, 3000, 4000, 5000}
GustVals == {1500, 6300}
PopVals == {10, 20, 40, 60, 80}
PrecipVals == {0, 10, 50}
LatVals == {45, -45}
MonthVals == {Null, 0, 6}

OptsSet ==
    [tempC : TempVals, feelsLikeC : FeelsVals, windKph : WindVals,
     gustKph : GustVals, pop : PopVals, precipMm : PrecipVals,
     hasAlert : BOOLEAN, conditions : CondTexts, lat : LatVals, month : MonthVals]

(***************************************************************************)
(* The scorer as a state machine: one call of golfabilityScore             *)
(***************************************************************************)
InitScore ==
    /\ opts \in OptsSet
    /\ res = NoResult
    /\ season = "none"
    /\ pc = "call"
    /\ HandlerIdle

Score ==
    /\ pc = "call"
    /\ res' = golfabilityScore(opts)
    /\ pc' = "returned"
    /\ UNCHANGED <<opts, season, handlerVars>>

NextScore == Score

SpecScore == InitScore /\ [][NextScore]_vars

(***************************************************************************)
(* Time helpers of the weather route                                       *)
(***************************************************************************)
\* the calendar date <<year, month 1..12, day>> of a day number since
\* 1970-01-01, as Date computes it (proleptic Gregorian calendar)
CivilFromDays(days) ==
    LET z == days + 719468
        era == z \div 146097
        doe == z - era * 146097
        yoe == (doe - doe \div 1460 + doe \div 36524 - doe \div 146096) \div 365
        doy == doe - (365 * yoe + yoe \div 4 - yoe \div 100)
        mp == (5 * doy + 2) \div 153
        d == doy - (153 * mp + 2) \div 5 + 1
        m == IF mp < 10 THEN mp + 3 ELSE mp - 9
        y == yoe + era * 400 + (IF m <= 2 THEN 1 ELSE 0)
    IN  <<y, m, d>>

\* new Date((dt + tzOffsetSec) * 1000).toISOString().split("T")[0]: the
\* date part, kept as <<year, month, day>>
dayKey(dt, tzOffsetSec) == CivilFromDays((dt + tzOffsetSec) \div 86400)

\* new Date((dt + tzOffsetSec) * 1000).getUTCHours()
localHour(dt, tzOffsetSec) == ((dt + tzOffsetSec) % 86400) \div 3600

\* new Date((Date.now() / 1000 + tzOffsetSec) * 1000).getUTCMonth(), 0..11
nowMonth(nowSec, tzOffsetSec) == CivilFromDays((nowSec + tzOffsetSec) \div 86400)[2] - 1

\* m/s in tenths to km/h in hundredths: ms * 3.6
msToKph(ms) == ms * 36

\* Math.round(n / d) for d > 0: the nearest integer, halves towards +infinity
RoundDiv(n, d) == (2 * n + d) \div (2 * d)

WINDOW_SEC == 10800
HOUR_SEC == 3600
MAX_FORECAST_BLOCKS == 40
MAX_DAYS == 5
TEE_FIRST_HOUR == 6
TEE_LAST_HOUR == 15

daylightStart(sunrise) == sunrise + HOUR_SEC
daylightEnd(sunset) == sunset - HOUR_SEC
latestStart(sunset) == daylightEnd(sunset) - WINDOW_SEC

isInTeeWindow(dt, tzOffsetSec) ==
    LET hr == localHour(dt, tzOffsetSec)
    IN  hr >= TEE_FIRST_HOUR /\ hr <= TEE_LAST_HOUR

(***************************************************************************)
(* Scoring the forecast list                                               *)
(* A provider reading b: dt, temp and feels_like (tenths of a degree),     *)
(* speed and gust (tenths of a m/s), rain and snow (hundredths of a mm),   *)
(* main (condition text).                                                  *)
(***************************************************************************)
\* Math.round(precipRaw * 10) / 10, in tenths of a mm
BlockPrecipMm(b) == RoundDiv(b.rain + b.snow, 10)

\* pop: 0.1 whatever the amount
PopProxyLow(precipMm) == 10

\* pop: precipMm > 0 ? 0.7 : 0.1
PopProxy(precipMm) == IF precipMm > 0 THEN 70 ELSE 10

ScoreBlock(b, e, lat) ==
    LET wind == msToKph(b.speed)
        gust == msToKph(b.gust)
        precipMm == BlockPrecipMm(b)
        golf == golfabilityScore(
                    [tempC |-> b.temp, feelsLikeC |-> b.feels_like,
                     windKph |-> wind, gustKph |-> gust,
                     pop |-> PopProxy(precipMm), precipMm |-> precipMm,
                     hasAlert |-> FALSE, conditions |-> b.main,
                     lat |-> lat, month |-> nowMonth(e.now, e.tzOffsetSec)])
    IN  [dt |-> b.dt,
         dayKey |-> dayKey(b.dt, e.tzOffsetSec),
         temp |-> RoundDiv(b.temp, 10),
         feels |-> RoundDiv(b.feels_like, 10),
         windKph |-> RoundDiv(wind, 100),
         gustKph |-> RoundDiv(gust, 100),
         precipMm |-> precipMm,
         conditions |-> b.main,
         inDaylight |-> (b.dt >= daylightStart(e.sunrise)
                         /\ b.dt <= daylightEnd(e.sunset)),
         golf |-> [score |-> golf.score, verdict |-> golf.verdict,
                   reason |-> golf.reason]]

\* (forecast.list ?? []).slice(0, 40).map(...)
ScoreBlocks(list, e, lat) ==
    [i \in 1..Min(Len(list), MAX_FORECAST_BLOCKS) |-> ScoreBlock(list[i], e, lat)]

(***************************************************************************)
(* Best block and best window                                              *)
(***************************************************************************)
NoBlock == [dt |-> Null]
NoWindow == [startDt |-> Null, endDt |-> Null, avgScore |-> Null]

\* the reducer (a, b) => (b.golf.score > a.golf.score ? b : a)
PickBetterLastOnTie(a, b) == IF b.golf.score >= a.golf.score THEN b ELSE a

PickBetter(a, b) == IF b.golf.score > a.golf.score THEN b ELSE a

RECURSIVE ReduceFrom(_, _, _)
ReduceFrom(seq, i, acc) ==
    IF i > Len(seq) THEN acc
    ELSE ReduceFrom(seq, i + 1, PickBetter(acc, seq[i]))

\* seq.length > 0 ? seq.reduce(PickBetter) : null
BestBlock(seq) == IF Len(seq) > 0 THEN ReduceFrom(seq, 2, seq[1]) ELSE NoBlock

\* the 3-hour window that starts at a block, null when there is no block
WindowOf(b) ==
    IF b = NoBlock THEN NoWindow
    ELSE [startDt |-> b.dt, endDt |-> b.dt + WINDOW_SEC, avgScore |-> b.golf.score]

InDaylight(b) == b.inDaylight

\* daylight blocks if there are any, else all
DaylightOrAll(seq) ==
    LET daylight == SelectSeq(seq, InDaylight)
    IN  IF Len(daylight) > 0 THEN daylight ELSE seq

todayKey(e) == dayKey(e.now, e.tzOffsetSec)

todayAll(bs, e) == SelectSeq(bs, LAMBDA b : b.dayKey = todayKey(e))

\* today's tee-hour blocks, however late they start
todayTeeBlocksNoClamp(bs, e) ==
    SelectSeq(DaylightOrAll(todayAll(bs, e)),
              LAMBDA b : isInTeeWindow(b.dt, e.tzOffsetSec))

todayTeeBlocks(bs, e) ==
    SelectSeq(DaylightOrAll(todayAll(bs, e)),
              LAMBDA b : isInTeeWindow(b.dt, e.tzOffsetSec)
                         /\ b.dt <= latestStart(e.sunset))

bestTodayBlock(bs, e) == BestBlock(todayTeeBlocks(bs, e))

(***************************************************************************)
(* Ground signals: greens speed and fairway rollout                        *)
(* Precipitation totals are tenths of a mm; the drying index is kept       *)
(* times 60, so that (avgTemp - 8) / 12 and (avgWind - 5) / 20 are whole:  *)
(* 1.0 is 60 and 0.8 is 48.                                                *)
(***************************************************************************)
RECURSIVE SumSeq(_, _)
SumSeq(nums, i) == IF i > Len(nums) THEN 0 ELSE nums[i] + SumSeq(nums, i + 1)

\* the mean cut down to a whole number
FlooredAvg(nums) == IF Len(nums) > 0 THEN SumSeq(nums, 1) \div Len(nums) ELSE 0

\* Math.round(avg(arr)), avg of no numbers being 0
RoundedAvg(nums) == IF Len(nums) > 0 THEN RoundDiv(SumSeq(nums, 1), Len(nums)) ELSE 0

avgTemp(dayBlocks) ==
    LET src == DaylightOrAll(dayBlocks)
    IN  RoundedAvg([i \in 1..Len(src) |-> src[i].temp])

avgWind(dayBlocks) ==
    LET src == DaylightOrAll(dayBlocks)
    IN  RoundedAvg([i \in 1..Len(src) |-> src[i].windKph])

\* heat + wind, times 60
Drying(dayBlocks) ==
    LET heat == Max(0, Min(90, 5 * (avgTemp(dayBlocks) - 8)))
        wind == Max(0, Min(60, 3 * (avgWind(dayBlocks) - 5)))
    IN  heat + wind

\* greensKey with the rules of the forecast proxy only
MeasuredGreensKeyNoSecondRule(past48, temp, drying) ==
    IF past48 >= 100 /\ drying < 60 THEN "SLOW"
    ELSE IF past48 <= 20 /\ temp >= 14 /\ drying >= 60 THEN "QUICK"
    ELSE "MEDIUM"

\* greensKey of computeGroundSignals, past48 not null
MeasuredGreensKey(past48, temp, drying) ==
    IF past48 >= 100 /\ drying < 60 THEN "SLOW"
    ELSE IF past48 >= 60 /\ drying < 48 THEN "SLOW"
    ELSE IF past48 <= 20 /\ temp >= 14 /\ drying >= 60 THEN "QUICK"
    ELSE "MEDIUM"

\* rollKey with the wet rule giving way to good drying
RollKeyDryingGated(wet, temp, drying) ==
    IF wet >= 120 /\ drying < 60 THEN "LOW"
    ELSE IF wet <= 20 /\ temp >= 10 /\ drying >= 60 THEN "HIGH"
    ELSE "MEDIUM"

\* rollKey of both functions
RollKey(wet, temp, drying) ==
    IF wet >= 120 THEN "LOW"
    ELSE IF wet <= 20 /\ temp >= 10 /\ drying >= 60 THEN "HIGH"
    ELSE "MEDIUM"

\* greensKey of the forecast function with no temperature condition on QUICK
ForecastGreensKeyNoTempGate(wet, temp, drying) ==
    IF wet >= 100 /\ drying < 60 THEN "SLOW"
    ELSE IF wet <= 20 /\ drying >= 60 THEN "QUICK"
    ELSE "MEDIUM"

\* greensKey of computeForecastGroundSignals
ForecastGreensKey(wet, temp, drying) ==
    IF wet >= 100 /\ drying < 60 THEN "SLOW"
    ELSE IF wet <= 20 /\ temp >= 14 /\ drying >= 60 THEN "QUICK"
    ELSE "MEDIUM"

\* greensConf and rollConf of computeGroundSignals
MeasuredConfidence(past48) == IF past48 = Null THEN "LOW" ELSE "MEDIUM"

computeGroundSignals(past24, past48, todayBlocks) ==
    LET temp == avgTemp(todayBlocks)
        drying == Drying(todayBlocks)
    IN  [past24hPrecipMm |-> past24,
         past48hPrecipMm |-> past48,
         forecast48hWetnessMm |-> Null,
         greensSpeed |->
             [key |-> IF past48 = Null THEN "MEDIUM"
                      ELSE MeasuredGreensKey(past48, temp, drying),
              confidence |-> MeasuredConfidence(past48)],
         fairwayRollout |->
             [key |-> IF past48 = Null THEN "MEDIUM"
                      ELSE RollKey(past48, temp, drying),
              confidence |-> MeasuredConfidence(past48)]]

\* greensConf of computeForecastGroundSignals
ForecastGreensConfMedium == "MEDIUM"

ForecastGreensConf == "LOW"

\* rollConf of computeForecastGroundSignals
ForecastRollConf == "LOW"

computeForecastGroundSignals(wetness48hMm, dayBlocks) ==
    LET temp == avgTemp(dayBlocks)
        drying == Drying(dayBlocks)
    IN  [past24hPrecipMm |-> Null,
         past48hPrecipMm |-> Null,
         forecast48hWetnessMm |-> wetness48hMm,
         greensSpeed |->
             [key |-> ForecastGreensKey(wetness48hMm, temp, drying),
              confidence |-> ForecastGreensConf],
         fairwayRollout |->
             [key |-> RollKey(wetness48hMm, temp, drying),
              confidence |-> ForecastRollConf]]

(***************************************************************************)
(* getPastPrecipMm                                                         *)
(* The history provider's reply: kind "rejected" (fetch or r.json()        *)
(* throws), "status" (r.ok is false) or "json"; of a json reply, isArray   *)
(* says whether hourly.time and hourly.precipitation are arrays, time      *)
(* holds the parsed timestamps in unix seconds (Null where Date.parse      *)
(* gives NaN) and precipitation the amounts in hundredths of a mm.         *)
(***************************************************************************)
NoPast == [past24 |-> Null, past48 |-> Null]

\* the sum of the amounts whose age is between 0 and maxAge seconds
RECURSIVE SumAged(_, _, _, _)
SumAged(reply, nowSec, maxAge, i) ==
    IF i > Len(reply.time) THEN 0
    ELSE (IF reply.time[i] # Null /\ nowSec - reply.time[i] >= 0
             /\ nowSec - reply.time[i] <= maxAge
          THEN reply.precipitation[i] ELSE 0)
         + SumAged(reply, nowSec, maxAge, i + 1)

\* has24 / has48
HasAged(reply, nowSec, maxAge) ==
    \E i \in 1..Len(reply.time) :
        /\ reply.time[i] # Null
        /\ nowSec - reply.time[i] >= 0
        /\ nowSec - reply.time[i] <= maxAge

\* a failed call counted as a dry spell
getPastPrecipMmZeroOnFailure(reply, nowSec) ==
    IF reply.kind # "json" THEN [past24 |-> 0, past48 |-> 0]
    ELSE IF ~reply.isArray \/ Len(reply.time) # Len(reply.precipitation)
            \/ Len(reply.time) = 0
    THEN [past24 |-> 0, past48 |-> 0]
    ELSE [past24 |-> IF HasAged(reply, nowSec, 86400)
                     THEN RoundDiv(SumAged(reply, nowSec, 86400, 1), 10) ELSE Null,
          past48 |-> IF HasAged(reply, nowSec, 172800)
                     THEN RoundDiv(SumAged(reply, nowSec, 172800, 1), 10) ELSE Null]

getPastPrecipMm(reply, nowSec) ==
    IF reply.kind # "json" THEN NoPast
    ELSE IF ~reply.isArray \/ Len(reply.time) # Len(reply.precipitation)
            \/ Len(reply.time) = 0
    THEN NoPast
    ELSE [past24 |-> IF HasAged(reply, nowSec, 86400)
                     THEN RoundDiv(SumAged(reply, nowSec, 86400, 1), 10) ELSE Null,
          past48 |-> IF HasAged(reply, nowSec, 172800)
                     THEN RoundDiv(SumAged(reply, nowSec, 172800, 1), 10) ELSE Null]

(***************************************************************************)
(* Grouping into days and the daily outlook                                *)
(***************************************************************************)
\* the keys of `grouped`, the newest first
RECURSIVE GroupKeysNewestFirst(_, _, _)
GroupKeysNewestFirst(bs, i, keys) ==
    IF i > Len(bs) THEN keys
    ELSE GroupKeysNewestFirst(bs, i + 1,
            IF \E k \in 1..Len(keys) : keys[k] = bs[i].dayKey
            THEN keys ELSE <<bs[i].dayKey>> \o keys)

\* the keys of `grouped`, in the order the loop first meets them
RECURSIVE GroupKeysFrom(_, _, _)
GroupKeysFrom(bs, i, keys) ==
    IF i > Len(bs) THEN keys
    ELSE GroupKeysFrom(bs, i + 1,
            IF \E k \in 1..Len(keys) : keys[k] = bs[i].dayKey
            THEN keys ELSE Append(keys, bs[i].dayKey))

\* Object.keys(grouped).slice(0, 5)
dayKeys(bs) ==
    LET keys == GroupKeysFrom(bs, 1, <<>>)
    IN  SubSeq(keys, 1, Min(Len(keys), MAX_DAYS))

\* grouped[key]
dayBlocksOf(bs, key) == SelectSeq(bs, LAMBDA b : b.dayKey = key)

RECURSIVE SumScores(_, _)
SumScores(seq, i) ==
    IF i > Len(seq) THEN 0 ELSE seq[i].golf.score + SumScores(seq, i + 1)

\* the mean cut down to a whole number
DayAvgTruncated(scoreBlocks) ==
    IF Len(scoreBlocks) > 0
    THEN SumScores(scoreBlocks, 1) \div Len(scoreBlocks)
    ELSE 0

\* Math.round(sum of scores / count), 0 for no blocks
DayAvg(scoreBlocks) ==
    IF Len(scoreBlocks) > 0
    THEN RoundDiv(SumScores(scoreBlocks, 1), Len(scoreBlocks))
    ELSE 0

DayVerdict(avg) ==
    IF avg >= 80 THEN "GREEN" ELSE IF avg >= 55 THEN "YELLOW" ELSE "RED"

\* the block of the day nearest to 12:00 local, the first one on ties
RECURSIVE NoonFrom(_, _, _, _)
NoonFrom(dayBlocks, tzOffsetSec, i, best) ==
    IF i > Len(dayBlocks) THEN best
    ELSE LET hr == localHour(dayBlocks[i].dt, tzOffsetSec)
             dist == IF hr >= 12 THEN hr - 12 ELSE 12 - hr
         IN  NoonFrom(dayBlocks, tzOffsetSec, i + 1,
                      IF best.dist = Null \/ dist < best.dist
                      THEN [b |-> dayBlocks[i], dist |-> dist] ELSE best)

noonBlock(dayBlocks, tzOffsetSec) ==
    NoonFrom(dayBlocks, tzOffsetSec, 1, [b |-> NoBlock, dist |-> Null]).b

\* the window closed at its end, the noon block counted in
wetness48hForecastMmInclusive(bs, dayBlocks, tzOffsetSec) ==
    LET endDt == noonBlock(dayBlocks, tzOffsetSec).dt
        startDt == endDt - 48 * HOUR_SEC
        inWindow == SelectSeq(bs, LAMBDA b : b.dt >= startDt /\ b.dt <= endDt)
    IN  SumSeq([i \in 1..Len(inWindow) |-> inWindow[i].precipMm], 1)

\* the precipitation forecast for the 48 hours before the day's noon block
wetness48hForecastMm(bs, dayBlocks, tzOffsetSec) ==
    LET endDt == noonBlock(dayBlocks, tzOffsetSec).dt
        startDt == endDt - 48 * HOUR_SEC
        inWindow == SelectSeq(bs, LAMBDA b : b.dt >= startDt /\ b.dt < endDt)
    IN  SumSeq([i \in 1..Len(inWindow) |-> inWindow[i].precipMm], 1)

\* bestWindow of a daily entry, with no regard for the verdict
EmittedDayWindowAlways(verdict, dayBestWindow) == dayBestWindow

\* verdict === "RED" ? null : dayBestWindow
EmittedDayWindow(verdict, dayBestWindow) ==
    IF verdict = "RED" THEN NoWindow ELSE dayBestWindow

\* one entry of `daily`; dayBestWindow is the callback's local of that name,
\* bestWindow the field it returns
DailyEntry(bs, key, e, ground) ==
    LET dayBlocks == dayBlocksOf(bs, key)
        scoreBlocks == DaylightOrAll(dayBlocks)
        avg == DayAvg(scoreBlocks)
        verdict == DayVerdict(avg)
        teeBlocks == SelectSeq(scoreBlocks,
                               LAMBDA b : isInTeeWindow(b.dt, e.tzOffsetSec))
        dayBestWindow == WindowOf(BestBlock(teeBlocks))
    IN  [dateKey |-> key,
         ground |-> IF key = todayKey(e) THEN ground
                    ELSE computeForecastGroundSignals(
                             wetness48hForecastMm(bs, dayBlocks, e.tzOffsetSec),
                             dayBlocks),
         golf |-> [score |-> avg, verdict |-> verdict],
         dayBestWindow |-> dayBestWindow,
         bestWindow |-> EmittedDayWindow(verdict, dayBestWindow)]

Daily(bs, e, ground) ==
    LET keys == dayKeys(bs)
    IN  [k \in 1..Len(keys) |-> DailyEntry(bs, keys[k], e, ground)]

(***************************************************************************)
(* GET /api/weather as a state machine                                     *)
(***************************************************************************)
ErrorResponse(status, error) == [status |-> status, error |-> error]

\* bounds of the inputs
MaxBlocks == 4
QueryLats == {45}
QueryLons == {-79}
\* 2024-07-15 07:00:00 and 22:00:00 UTC
Nows == {1721026800, 1721080800}
\* UTC, Eastern and Newfoundland daylight time (UTC-4:00, UTC-2:30)
TzOffsets == {0, -14400, -9000}
\* local time of day of sunrise and sunset; <<0, 0>> when current.sys has none
SunLocal == {<<18000, 73800>>, <<27000, 59400>>, <<0, 0>>}

Fine == [temp |-> 184, feels_like |-> 170, speed |-> 20, gust |-> 30,
         rain |-> 0, snow |-> 0, main |-> Clear]
Cool == [temp |-> 86, feels_like |-> 70, speed |-> 20, gust |-> 0,
         rain |-> 4, snow |-> 0, main |-> <<"C","l","o","u","d","s">>]
Wet == [temp |-> 150, feels_like |-> 150, speed |-> 60, gust |-> 0,
        rain |-> 500, snow |-> 0, main |-> <<"R","a","i","n">>]
Storm == [temp |-> 220, feels_like |-> 230, speed |-> 40, gust |-> 140,
          rain |-> 250, snow |-> 0, main |-> Thunderstorm]
Readings == {Fine, Cool, Wet, Storm}

\* the reading of the current moment
Muggy == [temp |-> 301, feels_like |-> 335, speed |-> 30, gust |-> 0,
          rain |-> 0, snow |-> 0, main |-> Clear]
CurrentReadings == {Muggy}

\* the provider's list: one reading every 3 hours, from the first 3-hour
\* mark after now
FirstSlot(nowSec) == ((nowSec \div WINDOW_SEC) + 1) * WINDOW_SEC

At(r, dt) ==
    [dt |-> dt, temp |-> r.temp, feels_like |-> r.feels_like,
     speed |-> r.speed, gust |-> r.gust, rain |-> r.rain, snow |-> r.snow,
     main |-> r.main]

ForecastLists(nowSec) ==
    UNION {
        {[i \in 1..n |-> At(r[i], FirstSlot(nowSec) + (i - 1) * WINDOW_SEC)]
            : r \in [1..n -> Readings]}
        : n \in 0..MaxBlocks}

\* sunrise / sunset of the location's current local day, unix seconds
SunAt(nowSec, tz, localSec) ==
    IF localSec = 0 THEN 0
    ELSE ((nowSec + tz) \div 86400) * 86400 - tz + localSec

\* longer forecasts, up to past the provider's 40 readings: the readings of a
\* pattern over and over, every 3 hours. UTC+4:30 puts the 3-hour marks at
\* 10:30 and 13:30 local.
LongLengths == {16, 41}
LongTzOffsets == {0, 16200}
Patterns == {<<Fine>>, <<Wet, Fine>>, <<Fine, Wet, Cool>>,
             <<Wet, Fine, Fine, Storm, Cool>>}

PatternList(nowSec, n, pattern) ==
    [i \in 1..n |-> At(pattern[((i - 1) % Len(pattern)) + 1],
                       FirstSlot(nowSec) + (i - 1) * WINDOW_SEC)]

\* what the two provider replies can say: the time of the request, the UTC
\* offset, sunrise and sunset, the forecast list
ShortScenarios ==
    UNION {{[now |-> n, tz |-> t, sun |-> sl, list |-> l]
                : t \in TzOffsets, sl \in SunLocal, l \in ForecastLists(n)}
            : n \in Nows}

LongScenarios ==
    {[now |-> 1721026800, tz |-> t, sun |-> <<18000, 73800>>,
      list |-> PatternList(1721026800, n, pat)]
        : t \in LongTzOffsets, n \in LongLengths, pat \in Patterns}

Scenarios == ShortScenarios \cup LongScenarios

\* how one of the two provider calls can end: a success, a non-success
\* status with a JSON body, a non-success status with a body that is not
\* JSON, a rejected fetch
FetchOutcomes == {"ok", "status", "statusNoJson", "rejected"}

\* the replies of the history provider: hourly amounts at 50, 30 and 10 hours
\* before the last full hour, at a time that does not parse, and 2 hours
\* ahead
HistoryTimes(nowSec) ==
    LET h == (nowSec \div HOUR_SEC) * HOUR_SEC
    IN  <<h - 50 * HOUR_SEC, h - 30 * HOUR_SEC, h - 10 * HOUR_SEC, Null,
          h + 2 * HOUR_SEC>>

HistoryReplies(nowSec) ==
    {[kind |-> "rejected", isArray |-> FALSE, time |-> <<>>, precipitation |-> <<>>],
     [kind |-> "status", isArray |-> FALSE, time |-> <<>>, precipitation |-> <<>>],
     [kind |-> "json", isArray |-> FALSE, time |-> <<>>, precipitation |-> <<>>],
     [kind |-> "json", isArray |-> TRUE, time |-> <<>>, precipitation |-> <<>>],
     [kind |-> "json", isArray |-> TRUE, time |-> HistoryTimes(nowSec),
      precipitation |-> <<0, 804>>],
     [kind |-> "json", isArray |-> TRUE, time |-> HistoryTimes(nowSec),
      precipitation |-> <<300, 0, 0, 700, 900>>],
     [kind |-> "json", isArray |-> TRUE, time |-> HistoryTimes(nowSec),
      precipitation |-> <<0, 804, 446, 0, 0>>]}

Init ==
    /\ ScorerIdle
    /\ pc = "start"
    /\ query \in [lat : QueryLats \cup {Null}, lon : QueryLons \cup {Null}]
    /\ apiKey \in BOOLEAN
    /\ calls = {}
    /\ fetched = NoFetch
    /\ env = NoEnv
    /\ blocks = <<>>
    /\ history = NoHistory
    /\ response = NoResponse

\* if (!lat || !lon) return 400
RejectMissingParams ==
    /\ pc = "start"
    /\ query.lat = Null \/ query.lon = Null
    /\ response' = ErrorResponse(400, "Missing lat/lon")
    /\ pc' = "done"
    /\ UNCHANGED <<scorerVars, query, apiKey, calls, fetched, env, blocks, history>>

\* if (!apiKey) return 500
RejectMissingKey ==
    /\ pc = "start"
    /\ query.lat # Null /\ query.lon # Null
    /\ ~apiKey
    /\ response' = ErrorResponse(500, "Missing API key")
    /\ pc' = "done"
    /\ UNCHANGED <<scorerVars, query, apiKey, calls, fetched, env, blocks, history>>

\* the two fetches issued whether or not there is a key
StartFetchWithoutKey ==
    /\ pc = "start"
    /\ query.lat # Null /\ query.lon # Null
    /\ calls' = {"weather", "forecast"}
    /\ pc' = "fetching"
    /\ UNCHANGED <<scorerVars, query, apiKey, fetched, env, blocks, history, response>>

\* Promise.all([fetch(weatherUrl), fetch(forecastUrl)]) is issued
StartFetch ==
    /\ pc = "start"
    /\ query.lat # Null /\ query.lon # Null
    /\ apiKey
    /\ calls' = {"weather", "forecast"}
    /\ pc' = "fetching"
    /\ UNCHANGED <<scorerVars, query, apiKey, fetched, env, blocks, history, response>>

\* a fetch rejects, or curRes.json() / fcRes.json() throws: nothing catches
\* it, GET rejects and the request ends with the framework's 500
FetchThrew ==
    /\ pc = "fetching"
    /\ \E cur \in FetchOutcomes, fc \in FetchOutcomes :
          /\ cur \in {"statusNoJson", "rejected"} \/ fc \in {"statusNoJson", "rejected"}
          /\ fetched' = [cur |-> cur, fc |-> fc]
    /\ response' = ErrorResponse(500, "Internal Server Error")
    /\ pc' = "done"
    /\ UNCHANGED <<scorerVars, query, apiKey, calls, env, blocks, history>>

\* a non-success status answered with the scores of an empty forecast
FetchFailedAnswers200 ==
    /\ pc = "fetching"
    /\ \E cur \in {"ok", "status"}, fc \in {"ok", "status"} :
          /\ cur = "status" \/ fc = "status"
          /\ fetched' = [cur |-> cur, fc |-> fc]
    /\ response' = [status |-> 200, golf |-> NoBlock, bestBlock |-> NoBlock,
                    bestWindow |-> NoWindow, daily |-> <<>>]
    /\ pc' = "done"
    /\ UNCHANGED <<scorerVars, query, apiKey, calls, env, blocks, history>>

\* if (!curRes.ok || !fcRes.ok) return 502
FetchFailed ==
    /\ pc = "fetching"
    /\ \E cur \in {"ok", "status"}, fc \in {"ok", "status"} :
          /\ cur = "status" \/ fc = "status"
          /\ fetched' = [cur |-> cur, fc |-> fc]
    /\ response' = ErrorResponse(502, "Weather fetch failed")
    /\ pc' = "done"
    /\ UNCHANGED <<scorerVars, query, apiKey, calls, env, blocks, history>>

\* forecast.list ?? []
ListOrEmpty(hasList, list) == IF hasList THEN list ELSE <<>>

\* an empty forecast list taken for a failed fetch
FetchReturnedEmptyIsFailure ==
    /\ pc = "fetching"
    /\ fetched' = [cur |-> "ok", fc |-> "ok"]
    /\ \E sc \in Scenarios, c \in CurrentReadings, hasList \in BOOLEAN :
              LET list == sc.list
                  e == [now |-> sc.now, tzOffsetSec |-> sc.tz,
                        sunrise |-> SunAt(sc.now, sc.tz, sc.sun[1]),
                        sunset |-> SunAt(sc.now, sc.tz, sc.sun[2]),
                        current |-> At(c, sc.now)]
              IN  /\ env' = e
                  /\ blocks' = ScoreBlocks(ListOrEmpty(hasList, list), e, query.lat)
                  /\ IF Len(ListOrEmpty(hasList, list)) = 0
                     THEN /\ response' = ErrorResponse(502, "Weather fetch failed")
                          /\ pc' = "done"
                     ELSE /\ response' = response
                          /\ pc' = "history"
    /\ UNCHANGED <<scorerVars, query, apiKey, calls, history>>

\* both responses are ok: the blocks are scored, then the handler awaits
\* getPastPrecipMm
FetchReturned ==
    /\ pc = "fetching"
    /\ fetched' = [cur |-> "ok", fc |-> "ok"]
    /\ \E sc \in Scenarios, c \in CurrentReadings, hasList \in BOOLEAN :
              LET list == sc.list
                  e == [now |-> sc.now, tzOffsetSec |-> sc.tz,
                        sunrise |-> SunAt(sc.now, sc.tz, sc.sun[1]),
                        sunset |-> SunAt(sc.now, sc.tz, sc.sun[2]),
                        current |-> At(c, sc.now)]
              IN  /\ env' = e
                  /\ blocks' = ScoreBlocks(ListOrEmpty(hasList, list), e, query.lat)
    /\ pc' = "history"
    /\ UNCHANGED <<scorerVars, query, apiKey, calls, history, response>>

\* golf of the response, taken from the reading of the current moment
TopGolfOfCurrent(best, e, lat) == ScoreBlock(e.current, e, lat).golf

\* golf: bestTodayBlock?.golf ?? null
TopGolf(best, e, lat) == IF best = NoBlock THEN NoBlock ELSE best.golf

\* current of the response
CurrentView(c) ==
    [temp |-> RoundDiv(c.temp, 10), feels |-> RoundDiv(c.feels_like, 10),
     windKph |-> RoundDiv(msToKph(c.speed), 100),
     gustKph |-> RoundDiv(msToKph(c.gust), 100),
     conditions |-> c.main]

\* getPastPrecipMm is called and awaited; then the rest of the handler:
\* today's ground signals, best block and window, the daily list, the
\* response
HistoryReturned ==
    /\ pc = "history"
    /\ calls' = calls \cup {"history"}
    /\ \E reply \in HistoryReplies(env.now) :
          LET past == getPastPrecipMm(reply, env.now)
              ground == computeGroundSignals(past.past24, past.past48,
                                             todayAll(blocks, env))
              best == bestTodayBlock(blocks, env)
          IN  /\ history' = [kind |-> reply.kind, isArray |-> reply.isArray,
                              length |-> <<Len(reply.time), Len(reply.precipitation)>>,
                              past24 |-> past.past24, past48 |-> past.past48]
              /\ response' =
                     [status |-> 200,
                      current |-> CurrentView(env.current),
                      golf |-> TopGolf(best, env, query.lat),
                      bestBlock |-> best,
                      bestWindow |-> WindowOf(best),
                      daily |-> Daily(blocks, env, ground),
                      ground |-> ground]
    /\ pc' = "done"
    /\ UNCHANGED <<scorerVars, query, apiKey, fetched, env, blocks>>

Next ==
    \/ RejectMissingParams
    \/ RejectMissingKey
    \/ StartFetch
    \/ FetchThrew
    \/ FetchFailed
    \/ FetchReturned
    \/ HistoryReturned

Spec == Init /\ [][Next]_vars

(***************************************************************************)
(* inferSeason as a state machine: one call                                *)
(***************************************************************************)
SeasonLats == {Null, -90, -45, -1, 0, 1, 45, 90}
SeasonMonths == {Null} \cup 0..11

InitSeason ==
    /\ opts \in [tempC : {180}, feelsLikeC : {170}, windKph : {1000},
                  gustKph : {1500}, pop : {10}, precipMm : {0},
                  hasAlert : {FALSE}, conditions : {Clear},
                  lat : SeasonLats, month : SeasonMonths]
    /\ res = NoResult
    /\ season = "none"
    /\ pc = "call"
    /\ HandlerIdle

InferSeason ==
    /\ pc = "call"
    /\ season' = inferSeason(opts.lat, opts.month)
    /\ pc' = "returned"
    /\ UNCHANGED <<opts, res, handlerVars>>

NextSeason == InferSeason

SpecSeason == InitSeason /\ [][NextSeason]_vars

(***************************************************************************)
(* The two ground-signal functions as a state machine: one call            *)
(***************************************************************************)
\* blocks of a day, as far as the two functions read them: temp in whole
\* degrees, windKph in whole km/h, inDaylight
GroundTemps == {7, 14, 26}
GroundWinds == {4, 11, 26}
GroundBlocks == [temp : GroundTemps, windKph : GroundWinds, inDaylight : BOOLEAN]
MaxGroundBlocks == 2
GroundDays == UNION {[1..n -> GroundBlocks] : n \in 0..MaxGroundBlocks}
\* precipitation totals in tenths of a mm, on both sides of 2, 6, 10 and 12 mm
WetVals == {0, 20, 21, 59, 60, 99, 100, 119, 120, 150}

InitGround ==
    /\ \/ \E p48 \in WetVals \cup {Null}, day \in GroundDays :
              \E p24 \in (IF p48 = Null THEN {Null} ELSE {Null, 0, p48}) :
                  opts = [mode |-> "measured", past24 |-> p24, past48 |-> p48,
                          wetness48hMm |-> Null, dayBlocks |-> day]
       \/ \E wet \in WetVals, day \in GroundDays :
              opts = [mode |-> "forecast", past24 |-> Null, past48 |-> Null,
                      wetness48hMm |-> wet, dayBlocks |-> day]
    /\ res = NoResult
    /\ season = "none"
    /\ pc = "call"
    /\ HandlerIdle

ComputeGround ==
    /\ pc = "call"
    /\ opts.mode = "measured"
    /\ res' = computeGroundSignals(opts.past24, opts.past48, opts.dayBlocks)
    /\ pc' = "returned"
    /\ UNCHANGED <<opts, season, handlerVars>>

ComputeForecastGround ==
    /\ pc = "call"
    /\ opts.mode = "forecast"
    /\ res' = computeForecastGroundSignals(opts.wetness48hMm, opts.dayBlocks)
    /\ pc' = "returned"
    /\ UNCHANGED <<opts, season, handlerVars>>

NextGround == ComputeGround \/ ComputeForecastGround

SpecGround == InitGround /\ [][NextGround]_vars

(***************************************************************************)
(* The callback of the blocks map as a state machine: one reading scored   *)
(***************************************************************************)
BlockFeels == {-30, 30, 70, 170, 330}
BlockSpeeds == {20, 150}
BlockGusts == {0, 200}
\* hundredths of a mm: 0.04 rounds to 0.0, 0.05 to 0.1
BlockRains == {0, 4, 5, 10, 500}
BlockSnows == {0, 10}
BlockMains == {Clear, <<"R","a","i","n">>, Thunderstorm, Snow}
BlockLats == {45, -45}
\* 2024-07-15 and 2024-10-15, 07:00:00 UTC
BlockNows == {1721026800, 1728975600}

InitBlock ==
    /\ \E f \in BlockFeels, sp \in BlockSpeeds, g \in BlockGusts,
          rn \in BlockRains, sn \in BlockSnows, m \in BlockMains,
          lat \in BlockLats, nowSec \in BlockNows :
          opts = [b |-> [dt |-> FirstSlot(nowSec), temp |-> 180,
                         feels_like |-> f, speed |-> sp, gust |-> g,
                         rain |-> rn, snow |-> sn, main |-> m],
                  lat |-> lat,
                  e |-> [now |-> nowSec, tzOffsetSec |-> 0,
                         sunrise |-> SunAt(nowSec, 0, 18000),
                         sunset |-> SunAt(nowSec, 0, 73800),
                         current |-> NoReading]]
    /\ res = NoResult
    /\ season = "none"
    /\ pc = "call"
    /\ HandlerIdle

ScoreReading ==
    /\ pc = "call"
    /\ res' = ScoreBlock(opts.b, opts.e, opts.lat)
    /\ pc' = "returned"
    /\ UNCHANGED <<opts, season, handlerVars>>

NextBlock == ScoreReading

SpecBlock == InitBlock /\ [][NextBlock]_vars

(***************************************************************************)
(* Properties of golfabilityScore and inferSeason                          *)
(***************************************************************************)
Returned == pc = "returned"

\* C1: for every input the returned score is an integer in [0,100].
C1_ScoreInRange == Returned => res.score \in 0..100

\* the clamp at 0 has acted: the penalties of a scored reading exceed 100
C1_Witness ==
    /\ Returned /\ res.season # "none" /\ res.score = 0
    /\ opts.pop = 80 /\ opts.precipMm = 50 /\ opts.windKph = 5000 /\ opts.feelsLikeC = -1

\* C2: the hard stops are tried in the order alert, thunderstorm text,
\* feels-like <= -2, snow text, WINTER with feels-like < 5; the first that
\* applies alone decides the result (0, 0, 10, 15, 25, always RED, each with
\* its own reason); alert + thunderstorm gives the alert result and "Snow"
\* with feels-like 1 gives 15/RED.
C2_Alert == opts.hasAlert
C2_Storm == isStormy(opts.conditions)
C2_Cold == opts.feelsLikeC # Null /\ opts.feelsLikeC <= -20
C2_Snow == isSnowy(opts.conditions)
C2_Winter ==
    /\ opts.month # Null
    /\ \/ (opts.lat = Null \/ opts.lat >= 0) /\ opts.month \in {11, 0, 1}
       \/ (opts.lat # Null /\ opts.lat < 0) /\ opts.month \in {5, 6, 7}
    /\ opts.feelsLikeC # Null /\ opts.feelsLikeC < 50

C2_Is(sc, reason) == res.score = sc /\ res.verdict = "RED" /\ res.reason = reason

C2_HardStopOrder ==
    Returned =>
        /\ C2_Alert => C2_Is(0, "Weather alert in effect")
        /\ ~C2_Alert /\ C2_Storm => C2_Is(0, "Thunderstorms - hard no")
        /\ ~C2_Alert /\ ~C2_Storm /\ C2_Cold => C2_Is(10, "Too cold to be playable")
        /\ ~C2_Alert /\ ~C2_Storm /\ ~C2_Cold /\ C2_Snow
              => C2_Is(15, "Snowing / winter conditions")
        /\ ~C2_Alert /\ ~C2_Storm /\ ~C2_Cold /\ ~C2_Snow /\ C2_Winter
              => C2_Is(25, "Winter conditions - not golf weather")
        /\ ~C2_Alert /\ opts.conditions = Snow /\ opts.feelsLikeC = 10
              => res.score = 15 /\ res.verdict = "RED"

\* a snowy text that is also cold enough for the absolute-cold rule: the
\* earlier rule (cold) has decided
C2_Witness ==
    /\ Returned /\ ~opts.hasAlert /\ opts.conditions = Snow
    /\ opts.feelsLikeC = -50 /\ res.score = 10

C4_TempMonotone ==
    (Returned /\ opts.feelsLikeC # Null /\ opts.feelsLikeC <= 320) =>
        \A f \in FeelsVals \ {Null} :
            f < opts.feelsLikeC =>
                golfabilityScore([opts EXCEPT !.feelsLikeC = f]).score <= res.score

\* C5: raising the sustained wind alone, or the gust alone, never raises the
\* score.
C5_WindMonotone ==
    Returned =>
        /\ \A w \in WindVals :
              w > opts.windKph =>
                  golfabilityScore([opts EXCEPT !.windKph = w]).score <= res.score
        /\ \A g \in GustVals :
              g > opts.gustKph =>
                  golfabilityScore([opts EXCEPT !.gustKph = g]).score <= res.score

\* a scored reading whose score a stronger wind, and a stronger gust, lowers
C5_Witness ==
    /\ Returned /\ res.season # "none" /\ opts.windKph = 4000 /\ opts.gustKph = 1500
    /\ golfabilityScore([opts EXCEPT !.windKph = 5000]).score < res.score
    /\ golfabilityScore([opts EXCEPT !.gustKph = 6300]).score < res.score

\* C6 as stated: feels-like -5 with "Clear" gives 10 / RED / "Too cold to be
\* playable" whatever the other fields, the alert flag included.
C6_ColdWhateverElse ==
    (Returned /\ opts.feelsLikeC = -50 /\ opts.conditions = Clear) =>
        /\ res.score = 10 /\ res.verdict = "RED"
        /\ res.reason = "Too cold to be playable"

\* C6 amended: feels-like -5 with "Clear" and no alert flag gives 10 / RED /
\* "Too cold to be playable" whatever the other fields; with the alert flag
\* set the alert hard stop decides (0 / RED / "Weather alert in effect").
C6_ColdUnlessAlert ==
    (Returned /\ opts.feelsLikeC = -50 /\ opts.conditions = Clear) =>
        IF opts.hasAlert
        THEN /\ res.score = 0 /\ res.verdict = "RED"
             /\ res.reason = "Weather alert in effect"
        ELSE /\ res.score = 10 /\ res.verdict = "RED"
             /\ res.reason = "Too cold to be playable"

\* the cold rule decides a reading that is also WINTER, stormy-windy and wet
C6_Witness ==
    /\ Returned /\ opts.feelsLikeC = -50 /\ opts.conditions = Clear /\ ~opts.hasAlert
    /\ opts.lat = 45 /\ opts.month = 0 /\ opts.windKph = 5000 /\ opts.pop = 80
    /\ res.score = 10

\* C7: inferSeason: month absent gives SHOULDER; latitude >= 0 or absent:
\* Dec/Jan/Feb WINTER, Jun/Jul/Aug SUMMER, else SHOULDER; latitude < 0: the
\* two triples swapped, SHOULDER months unchanged.
C7_Triple(m) ==
    IF m \in {11, 0, 1} THEN "DJF" ELSE IF m \in {5, 6, 7} THEN "JJA" ELSE "other"

C7_InferSeason ==
    Returned =>
        LET lat == opts.lat
            m == opts.month
        IN  /\ m = Null => season = "SHOULDER"
            /\ (m # Null /\ (lat = Null \/ lat >= 0)) =>
                  season = (CASE C7_Triple(m) = "DJF" -> "WINTER"
                              [] C7_Triple(m) = "JJA" -> "SUMMER"
                              [] OTHER -> "SHOULDER")
            /\ (m # Null /\ lat # Null /\ lat < 0) =>
                  season = (CASE C7_Triple(m) = "DJF" -> "SUMMER"
                              [] C7_Triple(m) = "JJA" -> "WINTER"
                              [] OTHER -> "SHOULDER")
            /\ (lat = 45 /\ m = 0) => season = "WINTER"
            /\ (lat = -45 /\ m = 0) => season = "SUMMER"
            /\ (lat = Null /\ m = 6) => season = "SUMMER"
            /\ (lat = 0 /\ m = 3) => season = "SHOULDER"

\* the hemisphere flip has acted
C7_Witness == Returned /\ opts.lat = -45 /\ opts.month = 0 /\ season = "SUMMER"

\* C8: with no hard stop, the score is 100 less the four penalties (each its
\* highest applicable band), clamped to [0,100]; feels-like 17, wind 10,
\* gust 15, probability 0.1, no precipitation, "Clear", SUMMER gives 100/GREEN.
C8_Band(x, bands) ==
    LET hit == {b \in bands : x >= b[1]}
    IN  IF hit = {} THEN 0
        ELSE (CHOOSE b \in hit : \A c \in hit : c[1] <= b[1])[2]

C8_Season ==
    IF opts.month = Null THEN "SHOULDER"
    ELSE IF C7_Triple(opts.month) = "other" THEN "SHOULDER"
    ELSE IF (opts.lat = Null \/ opts.lat >= 0) <=> (C7_Triple(opts.month) = "JJA")
         THEN "SUMMER" ELSE "WINTER"

C8_Penalties ==
    LET f == opts.feelsLikeC
        gust8 == (8 * opts.gustKph)
        wind10 == 10 * opts.windKph
        eff == IF wind10 > gust8 THEN wind10 ELSE gust8
    IN    C8_Band(opts.pop, {<<80, 40>>, <<60, 30>>, <<40, 18>>, <<20, 8>>})
        + C8_Band(opts.precipMm, {<<50, 12>>, <<10, 6>>})
        + C8_Band(eff, {<<50000, 28>>, <<40000, 22>>, <<30000, 14>>,
                        <<20000, 8>>, <<15000, 3>>})
        + (CASE f < 0 -> (IF C8_Season = "SUMMER" THEN 35 ELSE 40)
             [] f >= 0 /\ f < 50 -> (IF C8_Season = "SUMMER" THEN 25 ELSE 30)
             [] f >= 50 /\ f < 100 -> 10
             [] f > 320 -> 18
             [] OTHER -> 0)

C8_NoHardStop == ~C2_Alert /\ ~C2_Storm /\ ~C2_Cold /\ ~C2_Snow /\ ~C2_Winter

C8_PenaltySum ==
    (Returned /\ C8_NoHardStop /\ opts.feelsLikeC # Null) =>
        LET raw == 100 - C8_Penalties
        IN  /\ res.score = (IF raw < 0 THEN 0 ELSE IF raw > 100 THEN 100 ELSE raw)
            /\ (/\ opts.feelsLikeC = 170 /\ opts.windKph = 1000 /\ opts.gustKph = 1500
                 /\ opts.pop = 10 /\ opts.precipMm = 0 /\ opts.conditions = Clear
                 /\ C8_Season = "SUMMER")
                => res.score = 100 /\ res.verdict = "GREEN"

\* a reading that takes a band of every one of the four penalties
C8_Witness ==
    /\ Returned /\ C8_NoHardStop /\ opts.feelsLikeC = 49 /\ opts.lat = -45
    /\ opts.month = 0 /\ opts.pop = 40 /\ opts.precipMm = 10
    /\ opts.windKph = 2000 /\ opts.gustKph = 1500
    /\ res.score = 100 - 18 - 6 - 8 - 25

(***************************************************************************)
(* Properties of the best window                                           *)
(***************************************************************************)
Done200 == pc = "done" /\ response.status = 200

\* the scored blocks of one local day
C9_DayBlocks(key) == {blocks[i] : i \in {j \in DOMAIN blocks : blocks[j].dayKey = key}}

\* the candidate pool: the day's in-daylight blocks if any, else all of the
\* day's blocks, with local start hour in [6,15]
C9_Pool(key) ==
    LET all == C9_DayBlocks(key)
        lit == {b \in all : b.inDaylight}
        base == IF lit # {} THEN lit ELSE all
    IN  {b \in base : localHour(b.dt, env.tzOffsetSec) \in 6..15}

\* null for an empty pool, else 3 hours from the earliest block of maximum
\* score, with that block's score
C9_Window(pool) ==
    IF pool = {} THEN NoWindow
    ELSE LET top == {b \in pool : \A c \in pool : c.golf.score <= b.golf.score}
             first == CHOOSE b \in top : \A c \in top : b.dt <= c.dt
         IN  [startDt |-> first.dt, endDt |-> first.dt + 3 * 3600,
              avgScore |-> first.golf.score]

\* C9 as stated: every day's selected window, and the top-level window of
\* today, is C9_Window of C9_Pool.
C9_WindowSelection ==
    Done200 =>
        /\ \A k \in DOMAIN response.daily :
              response.daily[k].dayBestWindow
                  = C9_Window(C9_Pool(response.daily[k].dateKey))
        /\ response.bestWindow = C9_Window(C9_Pool(todayKey(env)))

\* C9 amended: as stated for the window selected for each day of the daily
\* list; the top-level window of today is selected from the same pool
\* restricted to the blocks that start no later than (sunset - 1h) - 3h.
C9_WindowSelectionClamped ==
    Done200 =>
        /\ \A k \in DOMAIN response.daily :
              response.daily[k].dayBestWindow
                  = C9_Window(C9_Pool(response.daily[k].dateKey))
        /\ response.bestWindow
              = C9_Window({b \in C9_Pool(todayKey(env)) :
                              b.dt <= env.sunset - 3600 - 3 * 3600})

\* the clamp has acted on today's pool and left two blocks of the maximum
\* score: the top-level window starts at the earlier one, and is not the
\* window of the unclamped pool
C9_Witness ==
    /\ Done200
    /\ LET pool == {b \in C9_Pool(todayKey(env)) :
                        b.dt <= env.sunset - 3600 - 3 * 3600}
       IN  \E a \in pool, b \in pool :
               /\ a.dt < b.dt /\ a.golf.score = b.golf.score
               /\ \A c \in pool : c.golf.score <= a.golf.score
               /\ response.bestWindow.startDt = a.dt
    /\ response.bestWindow # C9_Window(C9_Pool(todayKey(env)))

\* C10: every non-null bestWindow of the daily list starts at a local hour
\* in 06..15, and today's also ends no later than today's sunset.
C10_TeeWindowBounds ==
    Done200 =>
        \A k \in DOMAIN response.daily :
            LET d == response.daily[k]
            IN  d.bestWindow # NoWindow =>
                    /\ localHour(d.bestWindow.startDt, env.tzOffsetSec) \in 6..15
                    /\ (d.dateKey = todayKey(env) /\ env.sunset # 0)
                          => d.bestWindow.endDt <= env.sunset

\* C11: every entry of the daily list whose verdict is RED has a null
\* bestWindow, and an entry with a bestWindow has verdict GREEN or YELLOW.
C11_RedDayHasNoWindow ==
    Done200 =>
        \A k \in DOMAIN response.daily :
            LET d == response.daily[k]
            IN  /\ d.golf.verdict = "RED" => d.bestWindow = NoWindow
                /\ d.bestWindow # NoWindow => d.golf.verdict \in {"GREEN", "YELLOW"}

\* a RED day one of whose tee-hour blocks scores 80 or more: a window was
\* selected for it, and the entry carries none
C11_Witness ==
    /\ Done200
    /\ \E k \in DOMAIN response.daily :
          LET d == response.daily[k]
          IN  /\ d.golf.verdict = "RED"
              /\ d.dayBestWindow # NoWindow
              /\ d.dayBestWindow.avgScore >= 80
              /\ d.bestWindow = NoWindow

\* date keys <<year, month, day>> in calendar order
C12_Before(a, b) ==
    \/ a[1] < b[1]
    \/ a[1] = b[1] /\ a[2] < b[2]
    \/ a[1] = b[1] /\ a[2] = b[2] /\ a[3] < b[3]

\* C12: the daily list has at most 5 entries, its date keys are strictly
\* ascending, and its first entry is the location's current local date.
C12_DailyStartsToday ==
    Done200 =>
        /\ Len(response.daily) <= 5
        /\ \A k \in 1..(Len(response.daily) - 1) :
              C12_Before(response.daily[k].dateKey, response.daily[k + 1].dateKey)
        /\ Len(response.daily) > 0 => response.daily[1].dateKey = todayKey(env)

\* C13: a ground signal computed from the forecast-wetness proxy has both
\* confidences LOW, whatever the proxy value and the day's blocks; one computed
\* from a measured 48-hour total has neither confidence LOW.
C13_ProxyConfidenceLow ==
    Returned =>
        /\ opts.mode = "forecast" =>
              /\ res.greensSpeed.confidence = "LOW"
              /\ res.fairwayRollout.confidence = "LOW"
        /\ (opts.mode = "measured" /\ opts.past48 # Null) =>
              /\ res.greensSpeed.confidence # "LOW"
              /\ res.fairwayRollout.confidence # "LOW"

\* a dry, warm, breezy day from the proxy: greens QUICK and rollout HIGH,
\* both still LOW in confidence
C13_Witness ==
    /\ Returned
    /\ opts.mode = "forecast"
    /\ res.forecast48hWetnessMm = 20
    /\ res.greensSpeed = [key |-> "QUICK", confidence |-> "LOW"]
    /\ res.fairwayRollout = [key |-> "HIGH", confidence |-> "LOW"]

\* the history call failed, answered with a non-success status, or answered
\* with data that is malformed or empty
C14_HistoryUnusable ==
    /\ pc = "done"
    /\ "history" \in calls
    /\ \/ history.kind \in {"rejected", "status"}
       \/ /\ history.kind = "json"
          /\ \/ ~history.isArray
             \/ history.length[1] # history.length[2]
             \/ history.length[1] = 0

C14_Fallback == [key |-> "MEDIUM", confidence |-> "LOW"]

\* C14: when the history call fails or its data is unusable, the request
\* still answers 200 with a daily entry for each of the (first 5) days of the
\* scored blocks,
\* and today's ground signal is greens MEDIUM and fairway MEDIUM, both with
\* confidence LOW.
C14_HistoryFailureFallsBack ==
    C14_HistoryUnusable =>
        /\ response.status = 200
        /\ {response.daily[k].dateKey : k \in DOMAIN response.daily}
              \subseteq {blocks[i].dayKey : i \in DOMAIN blocks}
        /\ Len(response.daily)
              = Min(5, Cardinality({blocks[i].dayKey : i \in DOMAIN blocks}))
        /\ \A k \in DOMAIN response.daily :
              response.daily[k].golf.score \in 0..100
        /\ response.ground.greensSpeed = C14_Fallback
        /\ response.ground.fairwayRollout = C14_Fallback
        /\ \A k \in DOMAIN response.daily :
              response.daily[k].dateKey = todayKey(env)
                  => response.daily[k].ground = response.ground

\* a non-success status from the history provider on a day with forecast
\* blocks of today: the entry of today carries the fallback signal
C14_Witness ==
    /\ C14_HistoryUnusable
    /\ history.kind = "status"
    /\ response.status = 200
    /\ \E k \in DOMAIN response.daily :
          /\ response.daily[k].dateKey = todayKey(env)
          /\ response.daily[k].golf.score = 100
          /\ response.daily[k].ground.greensSpeed = C14_Fallback
          /\ response.daily[k].ground.fairwayRollout = C14_Fallback

\* C15: without the provider credential no provider call is ever issued, and
\* the request ends with an error response that carries nothing but the
\* status and the error text: 500 when lat and lon are given (400 when they
\* are missing, which is checked first).
C15_MissingKeyStopsEarly ==
    ~apiKey =>
        /\ calls = {}
        /\ pc = "done" =>
              /\ DOMAIN response = {"status", "error"}
              /\ response.status \in {400, 500}
              /\ (query.lat # Null /\ query.lon # Null) => response.status = 500

\* a request with lat and lon and no credential has been answered
C15_Witness ==
    /\ pc = "done"
    /\ ~apiKey
    /\ query.lat # Null /\ query.lon # Null
    /\ response = ErrorResponse(500, "Missing API key")
    /\ calls = {}

\* one of the two calls came back with a non-success status
C16_NonSuccess ==
    \/ fetched.cur \in {"status", "statusNoJson"}
    \/ fetched.fc \in {"status", "statusNoJson"}

\* C16: when the weather call or the forecast call returns a non-success
\* status, the request ends with a failure status and a response that
\* carries only the error: no block is scored, there is no daily list, and
\* the history provider is not called. The status is 502 when both bodies
\* are JSON.
C16_FetchFailureIsFatal ==
    C16_NonSuccess =>
        /\ pc = "done"
        /\ DOMAIN response = {"status", "error"}
        /\ response.status \in {500, 502}
        /\ (fetched.cur \in {"ok", "status"} /\ fetched.fc \in {"ok", "status"})
              => response = ErrorResponse(502, "Weather fetch failed")
        /\ blocks = <<>>
        /\ "history" \notin calls

\* the weather call succeeded and the forecast call did not
C16_Witness ==
    /\ pc = "done"
    /\ fetched = [cur |-> "ok", fc |-> "status"]
    /\ response = ErrorResponse(502, "Weather fetch failed")
    /\ blocks = <<>>

\* C17: when both calls succeed and the forecast has no readings (an empty
\* or absent list), the request goes on to the history call and answers 200
\* with an empty daily list and golf, bestBlock and bestWindow null.
C17_EmptyForecastIsNotAnError ==
    (fetched = [cur |-> "ok", fc |-> "ok"] /\ blocks = <<>>) =>
        \/ pc = "history"
        \/ /\ pc = "done"
           /\ response.status = 200
           /\ response.daily = <<>>
           /\ response.golf = NoBlock
           /\ response.bestBlock = NoBlock
           /\ response.bestWindow = NoWindow

\* an empty forecast has been answered
C17_Witness ==
    /\ pc = "done"
    /\ fetched = [cur |-> "ok", fc |-> "ok"]
    /\ blocks = <<>>
    /\ "history" \in calls
    /\ response.status = 200
    /\ response.daily = <<>>
    /\ response.golf = NoBlock

\* C18: the golf of the response is the golf of the block of today at which
\* the top-level bestWindow starts, and it is null exactly when that window
\* is null.
C18_GolfIsBestBlockScore ==
    Done200 =>
        /\ response.golf = NoBlock <=> response.bestWindow = NoWindow
        /\ response.bestWindow # NoWindow =>
              \E i \in DOMAIN blocks :
                  /\ blocks[i].dt = response.bestWindow.startDt
                  /\ blocks[i].dayKey = todayKey(env)
                  /\ response.golf = blocks[i].golf
                  /\ response.bestBlock = blocks[i]

\* the window starts at a later block than the first one, and the score of
\* the response is neither the first block's nor the current reading's
C18_Witness ==
    /\ Done200
    /\ response.bestWindow # NoWindow
    /\ response.bestWindow.startDt > blocks[1].dt
    /\ response.golf.score = 100
    /\ blocks[1].golf.score < 100
    /\ ScoreBlock(env.current, env, query.lat).golf.score < 100

\* C19: a non-null top-level bestWindow starts at a block of today whose
\* timestamp is at most (sunset - 1h) - 3h, and ends, 3 hours later, no later
\* than one hour before sunset.
C19_TodayWindowFitsDaylight ==
    (Done200 /\ response.bestWindow # NoWindow) =>
        /\ \E i \in DOMAIN blocks :
              /\ blocks[i].dt = response.bestWindow.startDt
              /\ blocks[i].dayKey = todayKey(env)
        /\ response.bestWindow.startDt <= (env.sunset - 3600) - 3 * 3600
        /\ response.bestWindow.endDt = response.bestWindow.startDt + 3 * 3600
        /\ response.bestWindow.endDt <= env.sunset - 3600

\* a window was chosen although a later tee-hour daylight block of today
\* scores higher: that block starts too late to end before dusk
C19_Witness ==
    /\ Done200
    /\ response.bestWindow # NoWindow
    /\ \E i \in DOMAIN blocks :
          /\ blocks[i].dayKey = todayKey(env)
          /\ blocks[i].inDaylight
          /\ isInTeeWindow(blocks[i].dt, env.tzOffsetSec)
          /\ blocks[i].dt > (env.sunset - 3600) - 3 * 3600
          /\ blocks[i].golf.score > response.bestWindow.avgScore

\* a window ends at or before 18:00 local time on the day it starts
C20_EndsBySix(w) ==
    ((w.startDt + env.tzOffsetSec) % 86400) + (w.endDt - w.startDt) <= 18 * 3600

\* C20: every tee window of the response, the top-level one and the one of
\* each daily entry, ends at or before 18:00 local time on the day it starts,
\* whatever the UTC offset.
C20_WindowsEndBySix ==
    Done200 =>
        /\ response.bestWindow # NoWindow => C20_EndsBySix(response.bestWindow)
        /\ \A k \in DOMAIN response.daily :
              response.daily[k].bestWindow # NoWindow
                  => C20_EndsBySix(response.daily[k].bestWindow)

\* the blocks a day is scored over: its in-daylight blocks if there is one,
\* else all its blocks
C21_Pool(key) ==
    LET all == C9_DayBlocks(key)
        lit == {b \in all : b.inDaylight}
    IN  IF lit # {} THEN lit ELSE all

RECURSIVE C21_Sum(_)
C21_Sum(pool) ==
    IF pool = {} THEN 0
    ELSE LET b == CHOOSE x \in pool : TRUE
         IN  b.golf.score + C21_Sum(pool \ {b})

C22_Measured(g) ==
    /\ g.forecast48hWetnessMm = Null
    /\ g.past24hPrecipMm = history.past24
    /\ g.past48hPrecipMm = history.past48

\* a ground signal made by computeForecastGroundSignals
C22_Proxy(g) ==
    /\ g.forecast48hWetnessMm # Null
    /\ g.past24hPrecipMm = Null
    /\ g.past48hPrecipMm = Null

\* C22: in the daily list the first entry's ground signal is the measured
\* one, made from the trailing 24h / 48h history, and every later entry's is
\* made from the forecast-wetness proxy.
C22_FirstMeasuredRestProxy ==
    Done200 =>
        \A k \in DOMAIN response.daily :
            IF k = 1
            THEN C22_Measured(response.daily[k].ground)
                 /\ response.daily[k].ground = response.ground
            ELSE C22_Proxy(response.daily[k].ground)

\* the precipitation figure a call was given, tenths of a mm
C23_Figure == IF opts.mode = "measured" THEN opts.past48 ELSE opts.wetness48hMm

\* C23: with a 48h figure p, measured greens speed is SLOW when p >= 10 mm
\* and drying < 1.0, else SLOW when p >= 6 mm and drying < 0.8, else QUICK
\* when p <= 2 mm, avgTemp >= 14 and drying >= 1.0, else MEDIUM; the proxy
\* mode has the same rules without the second one.
C23_GreensRules ==
    (Returned /\ C23_Figure # Null) =>
        LET p == C23_Figure
            temp == avgTemp(opts.dayBlocks)
            drying == Drying(opts.dayBlocks)
            slow1 == p >= 100 /\ drying < 60
            slow2 == opts.mode = "measured" /\ p >= 60 /\ drying < 48
            quick == p <= 20 /\ temp >= 14 /\ drying >= 60
        IN  res.greensSpeed.key =
                (IF slow1 \/ slow2 THEN "SLOW"
                 ELSE IF quick THEN "QUICK" ELSE "MEDIUM")

\* the scenario of the claim: 15 mm measured with drying 0.5 gives SLOW
C23_Witness ==
    /\ Returned
    /\ opts.mode = "measured"
    /\ opts.past48 = 150
    /\ Drying(opts.dayBlocks) = 30
    /\ res.greensSpeed.key = "SLOW"

\* C24: with a 48h figure p, measured or proxy, fairway rollout is LOW when
\* p >= 12 mm whatever the drying, else HIGH when p <= 2 mm, avgTemp >= 10
\* and drying >= 1.0, else MEDIUM.
C24_RolloutRules ==
    (Returned /\ C23_Figure # Null) =>
        LET p == C23_Figure
            temp == avgTemp(opts.dayBlocks)
            drying == Drying(opts.dayBlocks)
        IN  res.fairwayRollout.key =
                (IF p >= 120 THEN "LOW"
                 ELSE IF p <= 20 /\ temp >= 10 /\ drying >= 60 THEN "HIGH"
                 ELSE "MEDIUM")

\* 12 mm from the proxy on a warm day with the strongest drying: still LOW
C24_Witness ==
    /\ Returned
    /\ opts.mode = "forecast"
    /\ opts.wetness48hMm = 120
    /\ avgTemp(opts.dayBlocks) = 26
    /\ Drying(opts.dayBlocks) = 150
    /\ res.fairwayRollout.key = "LOW"

\* the positions of the blocks the means are taken over: the in-daylight
\* blocks of the day, all its blocks when none is in daylight
C25_Src ==
    LET lit == {i \in DOMAIN opts.dayBlocks : opts.dayBlocks[i].inDaylight}
    IN  IF lit # {} THEN lit ELSE DOMAIN opts.dayBlocks

RECURSIVE C25_SumAt(_, _)
C25_SumAt(vals, idx) ==
    IF idx = {} THEN 0
    ELSE LET i == CHOOSE x \in idx : TRUE
         IN  vals[i] + C25_SumAt(vals, idx \ {i})

C25_SumTemp == C25_SumAt([i \in DOMAIN opts.dayBlocks |-> opts.dayBlocks[i].temp], C25_Src)
C25_SumWind == C25_SumAt([i \in DOMAIN opts.dayBlocks |-> opts.dayBlocks[i].windKph], C25_Src)

C25_Clamp(x, lo, hi) == IF x < lo THEN lo ELSE IF x > hi THEN hi ELSE x

\* the integer nearest to sum / n, the upper one of two
C25_Nearest(sum, n) ==
    CHOOSE r \in -100..200 : 2 * n * r <= 2 * sum + n /\ 2 * sum + n < 2 * n * (r + 1)

\* C25 as stated: drying is clamp((avgTemp - 8)/12, 0, 1.5) plus
\* clamp((avgWind - 5)/20, 0, 1.0) with avgTemp and avgWind the arithmetic
\* means over the source blocks, and lies in [0, 2.5]. (Both sides times 60
\* and times the number n of source blocks; the mean of no block is 0.)
C25_DryingFromMeans ==
    Returned =>
        LET n == Cardinality(C25_Src)
            drying == Drying(opts.dayBlocks)
        IN  /\ drying >= 0 /\ drying <= 150
            /\ IF n = 0 THEN drying = 0
               ELSE n * drying =
                        C25_Clamp(5 * (C25_SumTemp - 8 * n), 0, 90 * n)
                        + C25_Clamp(3 * (C25_SumWind - 5 * n), 0, 60 * n)

\* C25 amended: the same with avgTemp and avgWind the means rounded to the
\* nearest integer.
C25_DryingFromRoundedMeans ==
    Returned =>
        LET n == Cardinality(C25_Src)
            drying == Drying(opts.dayBlocks)
            t == IF n = 0 THEN 0 ELSE C25_Nearest(C25_SumTemp, n)
            w == IF n = 0 THEN 0 ELSE C25_Nearest(C25_SumWind, n)
        IN  /\ drying >= 0 /\ drying <= 150
            /\ drying = C25_Clamp(5 * (t - 8), 0, 90) + C25_Clamp(3 * (w - 5), 0, 60)

\* two blocks of 7 and 14 degrees, none in daylight: the mean is 10.5, the
\* estimator works with 11
C25_Witness ==
    /\ Returned
    /\ Len(opts.dayBlocks) = 2
    /\ C25_Src = {1, 2}
    /\ C25_SumTemp = 21
    /\ avgTemp(opts.dayBlocks) = 11
    /\ 2 * Drying(opts.dayBlocks)
          # C25_Clamp(5 * (C25_SumTemp - 16), 0, 180) + C25_Clamp(3 * (C25_SumWind - 10), 0, 120)

RECURSIVE C26_SumPrecip(_)
C26_SumPrecip(bs) ==
    IF bs = {} THEN 0
    ELSE LET b == CHOOSE x \in bs : TRUE
         IN  b.precipMm + C26_SumPrecip(bs \ {b})

\* seconds between a block's local time of day and 12:00
C26_ClockDist(b) ==
    LET sec == (b.dt + env.tzOffsetSec) % 86400
    IN  IF sec >= 43200 THEN sec - 43200 ELSE 43200 - sec

\* hours between a block's local hour of day, minutes dropped, and 12
C26_HourDist(b) ==
    LET hr == ((b.dt + env.tzOffsetSec) % 86400) \div 3600
    IN  IF hr >= 12 THEN hr - 12 ELSE 12 - hr

\* the earliest of the day's blocks at the least distance
C26_Midday(day, Dist(_)) ==
    CHOOSE m \in day :
        /\ \A b \in day : Dist(m) <= Dist(b)
        /\ \A b \in day : Dist(b) = Dist(m) => m.dt <= b.dt

\* the sum of precipitation over the blocks in the 48 hours before m
C26_Wetness(m) ==
    C26_SumPrecip({blocks[i] : i \in {j \in DOMAIN blocks :
                      blocks[j].dt >= m.dt - 48 * 3600 /\ blocks[j].dt < m.dt}})

\* C26 as stated: for every entry of a day other than today, the proxy is
\* the sum of precipitation over the blocks with (m - 48h) <= t < m, m being
\* the day's block closest to 12:00 local, the earliest on ties.
C26_ProxyWindow ==
    Done200 =>
        \A k \in DOMAIN response.daily :
            LET d == response.daily[k]
            IN  d.dateKey # todayKey(env) =>
                    d.ground.forecast48hWetnessMm
                        = C26_Wetness(C26_Midday(C9_DayBlocks(d.dateKey), C26_ClockDist))

\* C26 amended: the same with closeness to 12:00 measured on the local hour
\* of day with its minutes dropped.
C26_ProxyWindowByHour ==
    Done200 =>
        \A k \in DOMAIN response.daily :
            LET d == response.daily[k]
            IN  d.dateKey # todayKey(env) =>
                    d.ground.forecast48hWetnessMm
                        = C26_Wetness(C26_Midday(C9_DayBlocks(d.dateKey), C26_HourDist))

\* a later day at UTC+4:30 whose 10:30 and 13:30 blocks are equally far from
\* 12:00: the window ends at the 13:30 block, which is wet and left out, has
\* rain in it, and leaves out a wet block more than 48 hours before
C26_Witness ==
    /\ Done200
    /\ env.tzOffsetSec % 3600 # 0
    /\ \E k \in DOMAIN response.daily :
          LET d == response.daily[k]
              day == C9_DayBlocks(d.dateKey)
              m == C26_Midday(day, C26_HourDist)
          IN  /\ d.dateKey # todayKey(env)
              /\ m # C26_Midday(day, C26_ClockDist)
              /\ m.precipMm > 0
              /\ d.ground.forecast48hWetnessMm > 0
              /\ \E i \in DOMAIN blocks :
                    blocks[i].dt < m.dt - 48 * 3600 /\ blocks[i].precipMm > 0

\* the groups of the given keys, one after the other
RECURSIVE C27_Flatten(_, _)
C27_Flatten(keys, i) ==
    IF i > Len(keys) THEN <<>>
    ELSE dayBlocksOf(blocks, keys[i]) \o C27_Flatten(keys, i + 1)

\* C27: the groups of the scored blocks by day key, concatenated in the
\* order their keys were first met, are the scored blocks again: the same
\* blocks in the same order.
C27_GroupFlattenRoundTrip ==
    fetched = [cur |-> "ok", fc |-> "ok"] =>
        C27_Flatten(GroupKeysFrom(blocks, 1, <<>>), 1) = blocks

\* 40 blocks over six local days, of which the daily list keeps five
C27_Witness ==
    /\ Done200
    /\ Len(blocks) = 40
    /\ Len(GroupKeysFrom(blocks, 1, <<>>)) = 6
    /\ Len(response.daily) = 5
    /\ C27_Flatten(GroupKeysFrom(blocks, 1, <<>>), 1) = blocks

\* C28: while the weather call and the forecast call are in flight the
\* history call has been issued too, and all three have been issued and
\* joined when the response with the ground signals and the daily list is
\* made.
C28_AllCallsInFlightTogether ==
    /\ pc = "fetching" => calls = {"weather", "forecast", "history"}
    /\ Done200 => calls = {"weather", "forecast", "history"}

\* C29: a forecast block whose precipitation amount, rounded to 0.1 mm, is
\* positive scores at most 70 and is never GREEN, whatever its temperature,
\* wind, condition and season.
C29_WetBlockAtMost70 ==
    (Returned /\ res.precipMm > 0) =>
        /\ res.golf.score <= 70
        /\ res.golf.verdict # "GREEN"

\* 0.05 mm of rain on a mild calm day: the amount rounds to 0.1 mm and the
\* block scores the full 70
C29_Witness ==
    /\ Returned
    /\ opts.b.rain + opts.b.snow = 5
    /\ res.precipMm = 1
    /\ res.golf.score = 70
    /\ res.golf.verdict = "YELLOW"

\* C30: in both functions, measured or proxy, with or without a rainfall
\* figure, QUICK greens come with HIGH fairway rollout and SLOW greens never
\* come with HIGH fairway rollout.
C30_GreensAgreeWithRollout ==
    Returned =>
        /\ res.greensSpeed.key = "QUICK" => res.fairwayRollout.key = "HIGH"
        /\ res.greensSpeed.key = "SLOW" => res.fairwayRollout.key # "HIGH"

\* a forecast day at the 2 mm edge, warm with the strongest drying: QUICK
\* greens and HIGH rollout
C30_Witness ==
    /\ Returned
    /\ opts.mode = "forecast"
    /\ opts.wetness48hMm = 20
    /\ avgTemp(opts.dayBlocks) >= 14
    /\ res.greensSpeed.key = "QUICK"
    /\ res.fairwayRollout.key = "HIGH"

====
